---- MODULE Spec2Model ----
(***************************************************************************)
(* Model of the timed cache of ralvarezdev/go-cache (src/timed/cache.go):  *)
(* DefaultTimedCache, a map from string keys to *TimedItem guarded by a    *)
(* sync.RWMutex, and TimedItem, a value with an absolute expiration time.  *)
(*                                                                         *)
(* Items live on a heap and the map stores pointers to them, as the Go     *)
(* code does: Set stores the caller's pointer, it does not copy the item.  *)
(*                                                                         *)
(* Spec      callers invoke whole operations one after the other while the *)
(*           clock advances between them.                                  *)
(* SpecHist  Spec, with the history of the values stored per key.         *)
(* SpecStale Spec, with the history of the stores into expired entries.    *)
(* SpecCaller Spec, with a caller that writes to the items it holds        *)
(*           through TimedItem.SetValue and TimedItem.SetExpiresAt.        *)
(* SpecConc  goroutines run the operations concurrently; a step is what an *)
(*           operation does between two points where the RWMutex or the    *)
(*           scheduler lets another goroutine in.                          *)
(* SpecP7    the writers/readers scenario: one writer per key calling Set, *)
(*           readers calling Get.                                          *)
(***************************************************************************)
EXTENDS Integers, Sequences, FiniteSets, TLC

\* ----- bounds of the model ------------------------------------------------
MaxKey == 2
MaxValue == 1
MaxItems == 2
MaxTime == 2
MaxThreads == 2
MaxReaders == 1

Keys == 1..MaxKey
\* interface{} values a caller stores; NilValue is Go's nil
NilValue == 0
Values == 1..MaxValue
AnyValue == Values \cup {NilValue}
\* time.Time{} (the zero time), which lies before every reading of the clock
ZeroTime == 0
Times == ZeroTime..MaxTime
\* a nil *TimedItem
NilPtr == 0

\* error values (src/errors.go, src/unnamed/part_001 and the timed package)
NoError == "nil"
ErrNilItem == "ErrNilItem"
ErrItemNotFound == "ErrItemNotFound"
ErrItemHasExpired == "ErrItemHasExpired"
ErrValueMustBeATimedItem == "ErrValueMustBeATimedItem"

VARIABLES
    items,       \* d.items: the map key -> pointer to TimedItem
    heap,        \* the TimedItems allocated so far, by pointer
    now,         \* time.Now()
    last,        \* the last operation that returned, with its results
    lastStored,  \* history: per key, the value last stored by Set/UpdateValue
                 \* (SpecHist, SpecP7), or whether the entry was expired
                 \* when UpdateValue last stored into it (SpecStale)
                 \* and the item of the last successful Set
    th,          \* per goroutine: where it is in its operation, and its locals
    mutex,       \* d.mutex: w, a writer holds it; r, the number of readers
    crashed,     \* the runtime stopped the process (fatal error)
    race         \* history: the map was written while another goroutine
                 \* held the lock

concVars == <<th, mutex, crashed, race>>
vars == <<items, heap, now, last, lastStored, th, mutex, crashed, race>>

\* ----- TimedItem ----------------------------------------------------------

\* NewTimedItem(value, expiresAt)
NewTimedItemRec(value, expiresAt) == [value |-> value, expiresAt |-> expiresAt]

\* HasExpired with a fault: expired already at the instant expiresAt
HasExpiredAtDeadline(h, i, t) ==
    IF i = NilPtr THEN TRUE ELSE t >= h[i].expiresAt

\* (i *TimedItem) HasExpired(): time.Now().After(i.expiresAt)
HasExpired(h, i, t) ==
    IF i = NilPtr THEN TRUE ELSE t > h[i].expiresAt

\* ----- the values a caller can pass to Set(key, value interface{}) ---------
\* "ptr": a *TimedItem (id NilPtr: a typed nil pointer); "nilinterface": an
\* untyped nil; "other": a value of any other dynamic type
SetArgs ==
    {[kind |-> "ptr", id |-> i] : i \in 0..Len(heap)}
        \cup {[kind |-> "nilinterface", id |-> NilPtr],
              [kind |-> "other", id |-> NilPtr]}

\* value.(*TimedItem): ok iff the dynamic type is *TimedItem
TypeAssertOk(arg) == arg.kind = "ptr"

\* ----- results ------------------------------------------------------------
\* What an operation was called with and what it returned:
\*   arg   the *TimedItem passed to Set (NilPtr for every other argument)
\*   kind  the kind of value passed to Set (see SetArgs), "none" otherwise
\*   had   the item the map held at the key when the operation started
\*   dead  that item had expired when the operation started
\*   value, time   what Get and GetExpirationTime returned; for UpdateValue
\*         and UpdateExpiresAt, the value and the time they were called with
\*   n     alternates, so that two calls in a row are two different records
NoOp == [op |-> "none", key |-> 0, arg |-> NilPtr, kind |-> "none",
         had |-> NilPtr, dead |-> FALSE,
         err |-> NoError, value |-> NilValue, found |-> FALSE,
         time |-> ZeroTime, n |-> 0]

Returned(op, key, arg, err, value, found, time) ==
    [op |-> op, key |-> key, arg |-> arg, kind |-> "none",
     had |-> IF key \in DOMAIN items THEN items[key] ELSE NilPtr,
     dead |-> key \in DOMAIN items /\ now > heap[items[key]].expiresAt,
     err |-> err, value |-> value, found |-> found, time |-> time,
     n |-> 1 - last.n]

\* MapStore with a fault: the map is replaced by one holding only the new entry
MapStoreReplacingMap(m, key, item) == [k \in {key} |-> item]

\* delete(d.items, key)
MapDelete(m, key) == [k \in (DOMAIN m) \ {key} |-> m[k]]

\* d.items[key] = item
MapStore(m, key, item) == [k \in (DOMAIN m) \cup {key} |->
                              IF k = key THEN item ELSE m[k]]

\* d.items[key], the comma-ok form: found
MapFound(m, key) == key \in DOMAIN m

\* item.value = value
HeapSetValue(h, i, value) == [h EXCEPT ![i].value = value]

\* item.expiresAt = expiresAt
HeapSetExpiresAt(h, i, expiresAt) == [h EXCEPT ![i].expiresAt = expiresAt]

\* ----- DefaultTimedCache, whole operations --------------------------------

Threads == 1..MaxThreads

Idle == [pc |-> "idle", op |-> "none", key |-> 0, value |-> NilValue,
         found |-> FALSE, time |-> ZeroTime]

\* NewDefaultTimedCache(), the clock somewhere after the zero time
Init ==
    /\ items = [k \in {} |-> NilPtr]
    /\ heap = <<>>
    /\ now = 1
    /\ last = NoOp
    /\ lastStored = [k \in Keys |->
                        [value |-> NilValue, item |-> NilPtr, dead |-> FALSE]]
    /\ th = [t \in Threads |-> Idle]
    /\ mutex = [w |-> FALSE, r |-> 0]
    /\ crashed = FALSE
    /\ race = FALSE

\* the clock advances
Tick ==
    /\ now < MaxTime
    /\ now' = now + 1
    /\ UNCHANGED <<items, heap, last>>

\* the caller builds an item
NewTimedItem ==
    /\ Len(heap) < MaxItems
    /\ \E v \in AnyValue, t \in Times :
          heap' = Append(heap, NewTimedItemRec(v, t))
    /\ UNCHANGED <<items, now, last>>

\* TimedItem.SetValue, called by whoever holds the pointer i
SetValue(i, value) ==
    /\ heap' = HeapSetValue(heap, i, value)
    /\ UNCHANGED <<items, now, last>>

\* TimedItem.SetExpiresAt, called by whoever holds the pointer i
SetExpiresAt(i, expiresAt) ==
    /\ heap' = HeapSetExpiresAt(heap, i, expiresAt)
    /\ UNCHANGED <<items, now, last>>

\* SetError with a fault: the expiration of the item is not checked
SetErrorNoExpiryCheck(arg) ==
    IF ~TypeAssertOk(arg) THEN ErrValueMustBeATimedItem
    ELSE IF arg.id = NilPtr THEN ErrNilItem
    ELSE NoError

\* the error Set returns for an argument, NoError when it stores it
SetError(arg) ==
    IF ~TypeAssertOk(arg) THEN ErrValueMustBeATimedItem
    ELSE IF arg.id = NilPtr THEN ErrNilItem
    ELSE IF HasExpired(heap, arg.id, now) THEN ErrItemHasExpired
    ELSE NoError

\* SetStores with a fault: an existing entry is kept, Set only inserts
SetStoresInsertOnly(key, arg) ==
    IF SetError(arg) = NoError /\ ~MapFound(items, key)
    THEN items' = MapStore(items, key, arg.id)
    ELSE UNCHANGED items

\* SetStores with a fault: the item is stored before its expiration is checked
SetStoresBeforeCheck(key, arg) ==
    IF SetError(arg) \in {NoError, ErrItemHasExpired}
    THEN items' = MapStore(items, key, arg.id)
    ELSE UNCHANGED items

\* what Set does to the map
SetStores(key, arg) ==
    IF SetError(arg) = NoError
    THEN items' = MapStore(items, key, arg.id)
    ELSE UNCHANGED items

Set(key, arg) ==
    /\ SetStores(key, arg)
    /\ last' = [Returned("Set", key, arg.id, SetError(arg),
                         NilValue, FALSE, ZeroTime) EXCEPT !.kind = arg.kind]
    /\ UNCHANGED <<heap, now>>

\* the error UpdateValue and UpdateExpiresAt return
\* UpdateError with a fault: an expired entry counts as not found
UpdateErrorExpiredNotFound(key) ==
    IF ~MapFound(items, key) \/ HasExpired(heap, items[key], now)
    THEN ErrItemNotFound ELSE NoError

UpdateError(key) ==
    IF ~MapFound(items, key) THEN ErrItemNotFound ELSE NoError

\* UpdateValueStores with a fault: an expired entry is left as it is
UpdateValueStoresLiveOnly(key, value) ==
    IF UpdateError(key) = NoError /\ ~HasExpired(heap, items[key], now)
    THEN heap' = HeapSetValue(heap, items[key], value)
    ELSE UNCHANGED heap

UpdateValueStores(key, value) ==
    IF UpdateError(key) = NoError
    THEN heap' = HeapSetValue(heap, items[key], value)
    ELSE UNCHANGED heap

UpdateValue(key, value) ==
    /\ UpdateValueStores(key, value)
    /\ last' = Returned("UpdateValue", key, NilPtr, UpdateError(key),
                        value, FALSE, ZeroTime)
    /\ UNCHANGED <<items, now>>

\* UpdateExpiresAtStores with a fault: a time already passed is not stored
UpdateExpiresAtStoresFutureOnly(key, expiresAt) ==
    IF UpdateError(key) = NoError /\ ~(now > expiresAt)
    THEN heap' = HeapSetExpiresAt(heap, items[key], expiresAt)
    ELSE UNCHANGED heap

UpdateExpiresAtStores(key, expiresAt) ==
    IF UpdateError(key) = NoError
    THEN heap' = HeapSetExpiresAt(heap, items[key], expiresAt)
    ELSE UNCHANGED heap

UpdateExpiresAt(key, expiresAt) ==
    /\ UpdateExpiresAtStores(key, expiresAt)
    /\ last' = Returned("UpdateExpiresAt", key, NilPtr, UpdateError(key),
                        NilValue, FALSE, expiresAt)
    /\ UNCHANGED <<items, now>>

UpdateExpirationTime(key, expiresAt) ==
    /\ UpdateExpiresAtStores(key, expiresAt)
    /\ last' = Returned("UpdateExpirationTime", key, NilPtr, UpdateError(key),
                        NilValue, FALSE, expiresAt)
    /\ UNCHANGED <<items, now>>

\* GetOutcome with a fault: an expired entry is reported missing but not removed
GetOutcomeNoEvict(m, h, t, key) ==
    IF ~MapFound(m, key)
    THEN [items |-> m, value |-> NilValue, found |-> FALSE]
    ELSE IF HasExpired(h, m[key], t)
    THEN [items |-> m, value |-> NilValue, found |-> FALSE]
    ELSE [items |-> m, value |-> h[m[key]].value, found |-> TRUE]

\* the body of Get: the map it leaves and what it returns
GetOutcome(m, h, t, key) ==
    IF ~MapFound(m, key)
    THEN [items |-> m, value |-> NilValue, found |-> FALSE]
    ELSE IF HasExpired(h, m[key], t)
    THEN [items |-> MapDelete(m, key), value |-> NilValue, found |-> FALSE]
    ELSE [items |-> m, value |-> h[m[key]].value, found |-> TRUE]

Get(key) ==
    /\ items' = GetOutcome(items, heap, now, key).items
    /\ last' = Returned("Get", key, NilPtr, NoError,
                        GetOutcome(items, heap, now, key).value,
                        GetOutcome(items, heap, now, key).found, ZeroTime)
    /\ UNCHANGED <<heap, now>>

\* HasOutcome with a fault: a plain lookup, expiration ignored
HasOutcomePresenceOnly(m, h, t, key) ==
    [items |-> m, found |-> MapFound(m, key)]

\* Has: _, found := d.Get(key)
HasOutcome(m, h, t, key) ==
    [items |-> GetOutcome(m, h, t, key).items,
     found |-> GetOutcome(m, h, t, key).found]

Has(key) ==
    /\ items' = HasOutcome(items, heap, now, key).items
    /\ last' = Returned("Has", key, NilPtr, NoError, NilValue,
                        HasOutcome(items, heap, now, key).found, ZeroTime)
    /\ UNCHANGED <<heap, now>>

\* Delete with a fault: an entry that has expired is left to the next Get
DeleteLiveOnly(key) ==
    /\ items' = IF MapFound(items, key) /\ HasExpired(heap, items[key], now)
                THEN items ELSE MapDelete(items, key)
    /\ last' = Returned("Delete", key, NilPtr, NoError, NilValue, FALSE,
                        ZeroTime)
    /\ UNCHANGED <<heap, now>>

\* Delete with a fault: deleting a key that is not in the map resets the map
DeleteAbsentResetsMap(key) ==
    /\ items' = IF MapFound(items, key)
                THEN MapDelete(items, key) ELSE [k \in {} |-> NilPtr]
    /\ last' = Returned("Delete", key, NilPtr, NoError, NilValue, FALSE,
                        ZeroTime)
    /\ UNCHANGED <<heap, now>>

Delete(key) ==
    /\ items' = MapDelete(items, key)
    /\ last' = Returned("Delete", key, NilPtr, NoError, NilValue, FALSE,
                        ZeroTime)
    /\ UNCHANGED <<heap, now>>

\* what GetExpirationTime returns
ExpirationTime(m, h, key) ==
    IF ~MapFound(m, key) THEN ZeroTime ELSE h[m[key]].expiresAt

\* GetExpirationTime with a fault: it goes through Get's expiration path
GetExpirationTimeEvicts(key) ==
    /\ items' = GetOutcome(items, heap, now, key).items
    /\ last' = Returned("GetExpirationTime", key, NilPtr, NoError, NilValue,
                        FALSE, ExpirationTime(items', heap, key))
    /\ UNCHANGED <<heap, now>>

GetExpirationTime(key) ==
    /\ last' = Returned("GetExpirationTime", key, NilPtr, NoError, NilValue,
                        FALSE, ExpirationTime(items, heap, key))
    /\ UNCHANGED <<items, heap, now>>

\* ----- history of stores (SpecHist, SpecP7) -------------------------------
HistSet(key, arg) ==
    lastStored' = IF SetError(arg) = NoError
                  THEN [lastStored EXCEPT ![key] =
                           [value |-> heap[arg.id].value, item |-> arg.id,
                            dead |-> FALSE]]
                  ELSE lastStored

HistUpdateValue(key, value) ==
    lastStored' = IF UpdateError(key) = NoError
                  THEN [lastStored EXCEPT ![key].value = value]
                  ELSE lastStored

\* what the sequential operations leave alone
Quiet == UNCHANGED <<lastStored, th, mutex, crashed, race>>

Next ==
    \/ Tick /\ Quiet
    \/ NewTimedItem /\ Quiet
    \/ \E k \in Keys, a \in SetArgs : Set(k, a) /\ Quiet
    \/ \E k \in Keys, v \in AnyValue : UpdateValue(k, v) /\ Quiet
    \/ \E k \in Keys, t \in Times : UpdateExpiresAt(k, t) /\ Quiet
    \/ \E k \in Keys, t \in Times : UpdateExpirationTime(k, t) /\ Quiet
    \/ \E k \in Keys : Get(k) /\ Quiet
    \/ \E k \in Keys : Has(k) /\ Quiet
    \/ \E k \in Keys : Delete(k) /\ Quiet
    \/ \E k \in Keys : GetExpirationTime(k) /\ Quiet

Spec == Init /\ [][Next]_vars

\* the same operations, with the history of stores kept
QuietConc == UNCHANGED <<th, mutex, crashed, race>>

NextHist ==
    \/ Tick /\ Quiet
    \/ NewTimedItem /\ Quiet
    \/ \E k \in Keys, a \in SetArgs : Set(k, a) /\ HistSet(k, a) /\ QuietConc
    \/ \E k \in Keys, v \in AnyValue :
          UpdateValue(k, v) /\ HistUpdateValue(k, v) /\ QuietConc
    \/ \E k \in Keys, t \in Times : UpdateExpiresAt(k, t) /\ Quiet
    \/ \E k \in Keys, t \in Times : UpdateExpirationTime(k, t) /\ Quiet
    \/ \E k \in Keys : Get(k) /\ Quiet
    \/ \E k \in Keys : Has(k) /\ Quiet
    \/ \E k \in Keys : Delete(k) /\ Quiet
    \/ \E k \in Keys : GetExpirationTime(k) /\ Quiet

SpecHist == Init /\ [][NextHist]_vars

\* the same operations, with the history of stores into expired entries kept
HistSetStale(key, arg) ==
    lastStored' = IF SetError(arg) = NoError
                  THEN [lastStored EXCEPT ![key].dead = FALSE]
                  ELSE lastStored

HistUpdateValueStale(key) ==
    lastStored' = IF UpdateError(key) = NoError
                  THEN [lastStored EXCEPT
                           ![key].dead = HasExpired(heap, items[key], now)]
                  ELSE lastStored

NextStale ==
    \/ Tick /\ Quiet
    \/ NewTimedItem /\ Quiet
    \/ \E k \in Keys, a \in SetArgs :
          Set(k, a) /\ HistSetStale(k, a) /\ QuietConc
    \/ \E k \in Keys, v \in AnyValue :
          UpdateValue(k, v) /\ HistUpdateValueStale(k) /\ QuietConc
    \/ \E k \in Keys, t \in Times : UpdateExpiresAt(k, t) /\ Quiet
    \/ \E k \in Keys, t \in Times : UpdateExpirationTime(k, t) /\ Quiet
    \/ \E k \in Keys : Get(k) /\ Quiet
    \/ \E k \in Keys : Has(k) /\ Quiet
    \/ \E k \in Keys : Delete(k) /\ Quiet
    \/ \E k \in Keys : GetExpirationTime(k) /\ Quiet

SpecStale == Init /\ [][NextStale]_vars

\* the same operations, with a caller that also writes to the items it
\* holds (the ones it built, passed to Set or got back from Get)
NextCaller ==
    \/ Tick /\ Quiet
    \/ NewTimedItem /\ Quiet
    \/ \E i \in 1..Len(heap), v \in AnyValue : SetValue(i, v) /\ Quiet
    \/ \E i \in 1..Len(heap), t \in Times : SetExpiresAt(i, t) /\ Quiet
    \/ \E k \in Keys, a \in SetArgs : Set(k, a) /\ Quiet
    \/ \E k \in Keys, v \in AnyValue : UpdateValue(k, v) /\ Quiet
    \/ \E k \in Keys, t \in Times : UpdateExpiresAt(k, t) /\ Quiet
    \/ \E k \in Keys, t \in Times : UpdateExpirationTime(k, t) /\ Quiet
    \/ \E k \in Keys : Get(k) /\ Quiet
    \/ \E k \in Keys : Has(k) /\ Quiet
    \/ \E k \in Keys : Delete(k) /\ Quiet
    \/ \E k \in Keys : GetExpirationTime(k) /\ Quiet

SpecCaller == Init /\ [][NextCaller]_vars

\* ----- DefaultTimedCache, goroutines ---------------------------------------
\* th[t].pc: "idle", not in an operation; "w_locked", d.mutex.Lock() returned;
\* "w_done", the body ran and the deferred Unlock is next; "r_locked",
\* d.mutex.RLock() returned; "r_evict", Get found its item expired and
\* delete(d.items, key) is next; "r_done", the deferred RUnlock is next.
\* The locals key, value, found, time hold what the operation will return.

WriteOps == {"Set", "UpdateValue", "UpdateExpiresAt", "Delete"}
ReadOps == {"Get", "Has", "GetExpirationTime"}

At(t, pc, op) == ~crashed /\ th[t].pc = pc /\ th[t].op = op

Goto(t, pc) == th' = [th EXCEPT ![t].pc = pc]

\* Lock with a fault: the write lock is granted while readers hold the lock
LockIgnoringReaders(t, op) ==
    /\ ~crashed /\ th[t].pc = "idle"
    /\ ~mutex.w
    /\ mutex' = [mutex EXCEPT !.w = TRUE]
    /\ th' = [th EXCEPT ![t] = [Idle EXCEPT !.pc = "w_locked", !.op = op]]
    /\ UNCHANGED <<items, heap, now, last, crashed, race>>

\* d.mutex.Lock()
Lock(t, op) ==
    /\ ~crashed /\ th[t].pc = "idle"
    /\ ~mutex.w /\ mutex.r = 0
    /\ mutex' = [mutex EXCEPT !.w = TRUE]
    /\ th' = [th EXCEPT ![t] = [Idle EXCEPT !.pc = "w_locked", !.op = op]]
    /\ UNCHANGED <<items, heap, now, last, crashed, race>>

\* defer d.mutex.Unlock(), and the return
Unlock(t) ==
    /\ ~crashed /\ th[t].pc = "w_done"
    /\ mutex' = [mutex EXCEPT !.w = FALSE]
    /\ th' = [th EXCEPT ![t] = Idle]
    /\ UNCHANGED <<items, heap, now, last, crashed, race>>

\* d.mutex.RLock()
RLock(t, op) ==
    /\ ~crashed /\ th[t].pc = "idle"
    /\ ~mutex.w
    /\ mutex' = [mutex EXCEPT !.r = @ + 1]
    /\ th' = [th EXCEPT ![t] = [Idle EXCEPT !.pc = "r_locked", !.op = op]]
    /\ UNCHANGED <<items, heap, now, last, crashed, race>>

\* defer d.mutex.RUnlock(), and the return
RUnlock(t) ==
    /\ ~crashed /\ th[t].pc = "r_done"
    /\ mutex' = [mutex EXCEPT !.r = @ - 1]
    /\ th' = [th EXCEPT ![t] = Idle]
    /\ UNCHANGED <<items, heap, now, last, crashed, race>>

\* the body of Set, under the write lock
SetLocked(t, key, arg) ==
    /\ At(t, "w_locked", "Set")
    /\ SetStores(key, arg)
    /\ Goto(t, "w_done")
    /\ UNCHANGED <<heap, now, last, mutex, crashed, race>>

\* the body of UpdateValue, under the write lock
UpdateValueLocked(t, key, value) ==
    /\ At(t, "w_locked", "UpdateValue")
    /\ UpdateValueStores(key, value)
    /\ Goto(t, "w_done")
    /\ UNCHANGED <<items, now, last, mutex, crashed, race>>

\* the body of UpdateExpiresAt, under the write lock
UpdateExpiresAtLocked(t, key, expiresAt) ==
    /\ At(t, "w_locked", "UpdateExpiresAt")
    /\ UpdateExpiresAtStores(key, expiresAt)
    /\ Goto(t, "w_done")
    /\ UNCHANGED <<items, now, last, mutex, crashed, race>>

\* the body of Delete, under the write lock
DeleteLocked(t, key) ==
    /\ At(t, "w_locked", "Delete")
    /\ items' = MapDelete(items, key)
    /\ Goto(t, "w_done")
    /\ UNCHANGED <<heap, now, last, mutex, crashed, race>>

\* Get under the read lock: the lookup and the HasExpired check
GetLookup(t, op, key) ==
    /\ At(t, "r_locked", op)
    /\ op \in {"Get", "Has"}
    /\ IF ~MapFound(items, key)
       THEN th' = [th EXCEPT ![t].pc = "r_done", ![t].key = key]
       ELSE IF HasExpired(heap, items[key], now)
       THEN th' = [th EXCEPT ![t].pc = "r_evict", ![t].key = key]
       ELSE th' = [th EXCEPT ![t].pc = "r_done", ![t].key = key,
                             ![t].value = heap[items[key]].value,
                             ![t].found = TRUE]
    /\ UNCHANGED <<items, heap, now, last, mutex, crashed, race>>

\* Get under the read lock: delete(d.items, key). A map written while other
\* goroutines hold the read lock is a data race: the write goes through, or
\* the runtime detects it and stops the process (fatal error: concurrent map
\* read and map write, concurrent map writes).
GetEvict(t) ==
    /\ ~crashed /\ th[t].pc = "r_evict"
    /\ race' = (race \/ mutex.r > 1)
    /\ \/ /\ items' = MapDelete(items, th[t].key)
          /\ Goto(t, "r_done")
          /\ UNCHANGED crashed
       \/ /\ mutex.r > 1
          /\ crashed' = TRUE
          /\ UNCHANGED <<items, th>>
    /\ UNCHANGED <<heap, now, last, mutex>>

\* the body of GetExpirationTime, under the read lock
GetExpirationTimeLocked(t, key) ==
    /\ At(t, "r_locked", "GetExpirationTime")
    /\ th' = [th EXCEPT ![t].pc = "r_done", ![t].key = key,
                        ![t].time = ExpirationTime(items, heap, key)]
    /\ UNCHANGED <<items, heap, now, last, mutex, crashed, race>>

NoHist == UNCHANGED lastStored

NextConc ==
    \/ Tick /\ Quiet
    \/ NewTimedItem /\ Quiet
    \/ \E t \in Threads, op \in WriteOps : Lock(t, op) /\ NoHist
    \/ \E t \in Threads, k \in Keys, a \in SetArgs :
          SetLocked(t, k, a) /\ NoHist
    \/ \E t \in Threads, k \in Keys, v \in AnyValue :
          UpdateValueLocked(t, k, v) /\ NoHist
    \/ \E t \in Threads, k \in Keys, e \in Times :
          UpdateExpiresAtLocked(t, k, e) /\ NoHist
    \/ \E t \in Threads, k \in Keys : DeleteLocked(t, k) /\ NoHist
    \/ \E t \in Threads : Unlock(t) /\ NoHist
    \/ \E t \in Threads, op \in ReadOps : RLock(t, op) /\ NoHist
    \/ \E t \in Threads, op \in ReadOps, k \in Keys :
          GetLookup(t, op, k) /\ NoHist
    \/ \E t \in Threads : GetEvict(t) /\ NoHist
    \/ \E t \in Threads, k \in Keys : GetExpirationTimeLocked(t, k) /\ NoHist
    \/ \E t \in Threads : RUnlock(t) /\ NoHist

SpecConc == Init /\ [][NextConc]_vars

\* ----- the writers/readers scenario ----------------------------------------
\* writer w calls Set on its own key w, readers call Get on any key
Writers == 1..MaxKey
Readers == (MaxKey + 1)..(MaxKey + MaxReaders)

InitP7 ==
    /\ items = [k \in {} |-> NilPtr]
    /\ heap = <<>>
    /\ now = 1
    /\ last = NoOp
    /\ lastStored = [k \in Keys |->
                        [value |-> NilValue, item |-> NilPtr, dead |-> FALSE]]
    /\ th = [t \in Writers \cup Readers |-> Idle]
    /\ mutex = [w |-> FALSE, r |-> 0]
    /\ crashed = FALSE
    /\ race = FALSE

NextP7 ==
    \/ Tick /\ Quiet
    \/ NewTimedItem /\ Quiet
    \/ \E w \in Writers : Lock(w, "Set") /\ NoHist
    \/ \E w \in Writers, a \in SetArgs : SetLocked(w, w, a) /\ HistSet(w, a)
    \/ \E w \in Writers : Unlock(w) /\ NoHist
    \/ \E r \in Readers : RLock(r, "Get") /\ NoHist
    \/ \E r \in Readers, k \in Keys : GetLookup(r, "Get", k) /\ NoHist
    \/ \E r \in Readers : GetEvict(r) /\ NoHist
    \/ \E r \in Readers : RUnlock(r) /\ NoHist

SpecP7 == InitP7 /\ [][NextP7]_vars

\* ----- type correctness ---------------------------------------------------
TypeOK ==
    /\ DOMAIN items \subseteq Keys
    /\ \A k \in DOMAIN items : items[k] \in 1..Len(heap)
    /\ Len(heap) <= MaxItems
    /\ now \in 1..MaxTime

\* ----- vocabulary of the properties ----------------------------------------

\* the step is a cache operation returning
OpStep == last'.n # last.n

\* key is in the map m and its entry is not expired at time t
Live(m, h, t, key) == key \in DOMAIN m /\ ~(t > h[m[key]].expiresAt)

\* key is in the map m and its entry is expired at time t
Dead(m, h, t, key) == key \in DOMAIN m /\ t > h[m[key]].expiresAt

UpdateOps == {"UpdateValue", "UpdateExpiresAt", "UpdateExpirationTime"}

ExpiryOps == {"UpdateExpiresAt", "UpdateExpirationTime"}

\* a key that is not in the map enters it only by a successful Set of that key
AbsentUntilSet ==
    \A k \in Keys :
        (k \notin DOMAIN items /\ k \in DOMAIN items')
            => (OpStep /\ last'.op = "Set" /\ last'.key = k
                       /\ last'.err = NoError)

\* what every operation returns for a key that is not in the map
AbsentResults ==
    (OpStep /\ last'.key \notin DOMAIN items) =>
        /\ last'.op = "Get" => (~last'.found /\ last'.value = NilValue)
        /\ last'.op = "Has" => ~last'.found
        /\ last'.op = "GetExpirationTime" => last'.time = ZeroTime
        /\ last'.op \in UpdateOps => last'.err = ErrItemNotFound

\* ----- claims C1 (SpecHist), C2..C4 (Spec) ----------------------------------

\* C1: Get(k) returns (v, true) exactly when k is in the map and not expired,
\* v being the value most recently stored for k by a successful Set or
\* UpdateValue; otherwise it returns (nil, false); it never returns an error.
C1_GetReturnsLastStored ==
    [][(OpStep /\ last'.op = "Get") =>
          /\ last'.err = NoError
          /\ last'.found = Live(items, heap, now, last'.key)
          /\ last'.value = IF Live(items, heap, now, last'.key)
                           THEN lastStored[last'.key].value ELSE NilValue]_vars

\* C2: Set(k, item) with an item that has already expired fails with
\* ErrItemHasExpired and changes neither the map nor any item, and a Get(k)
\* that follows it never returns the rejected item.
C2_NoDeadAdmission ==
    [][/\ (OpStep /\ last'.op = "Set" /\ last'.arg # NilPtr
                  /\ now > heap[last'.arg].expiresAt)
            => (last'.err = ErrItemHasExpired /\ items' = items /\ heap' = heap)
       /\ (OpStep /\ last.op = "Set" /\ last.err = ErrItemHasExpired
                  /\ last'.op = "Get" /\ last'.key = last.key
                  /\ last'.found)
            => items[last.key] # last.arg]_vars

C2_Witness ==
    /\ last.op = "Set" /\ last.err = ErrItemHasExpired
    /\ last.arg # NilPtr /\ last.had = NilPtr
    /\ last.key \notin DOMAIN items

\* C3: after a successful Set(k, item), with nothing but the passage of time
\* in between, Get(k) returns (item's value, true) at every instant
\* now <= expiresAt and (nil, false) at every instant now > expiresAt.
C3_LazyExpiry ==
    [][(OpStep /\ last.op = "Set" /\ last.err = NoError
               /\ last'.op = "Get" /\ last'.key = last.key) =>
          IF now <= heap[last.arg].expiresAt
          THEN last'.found /\ last'.value = heap[last.arg].value
          ELSE ~last'.found /\ last'.value = NilValue]_vars

\* the Get found its entry expired at the first instant after expiresAt
C3_Witness ==
    /\ last.op = "Get" /\ ~last.found /\ last.had # NilPtr
    /\ heap[last.had].expiresAt = now - 1

\* C4: when Get(k) or Has(k) finds the entry at k expired, k is not in the
\* map when the call returns; from then on k stays out of the map until a
\* Set(k) succeeds, and GetExpirationTime(k) returns the zero time for a key
\* that is not in the map.
C4_EvictionOnRead ==
    [][/\ (OpStep /\ last'.op \in {"Get", "Has"}
                  /\ Dead(items, heap, now, last'.key))
            => last'.key \notin DOMAIN items'
       /\ AbsentUntilSet
       /\ (OpStep /\ last'.op = "GetExpirationTime"
                  /\ last'.key \notin DOMAIN items)
            => last'.time = ZeroTime]_vars

C4_Witness ==
    /\ last.op = "Get" /\ ~last.found /\ last.had # NilPtr
    /\ last.key \notin DOMAIN items

\* ----- claims, checked under SpecConc --------------------------------------

\* C5: in every interleaving of the operations the map is never written by
\* one operation while another operation holds the lock and reads or writes
\* it.
C5_NoDataRace == ~race

\* ----- claims, checked under SpecP7 ----------------------------------------

AllWritersFinished == \A w \in Writers : th[w].pc = "idle"

\* a Set of key succeeded, and the item it stored has not expired
WrittenAndLive(key) ==
    /\ lastStored[key].item # NilPtr
    /\ now <= heap[lastStored[key].item].expiresAt

C7_Overwrite ==
    [][/\ (OpStep /\ last'.op = "Set" /\ last'.err = NoError) =>
            /\ last'.key \in DOMAIN items'
            /\ items'[last'.key] = last'.arg
            /\ heap' = heap
            /\ \A k \in Keys \ {last'.key} :
                  /\ (k \in DOMAIN items') = (k \in DOMAIN items)
                  /\ k \in DOMAIN items => items'[k] = items[k]
       /\ (OpStep /\ last.op = "Set" /\ last.err = NoError
                  /\ last'.key = last.key) =>
            /\ (last'.op = "Get" /\ now <= heap[last.arg].expiresAt)
                  => (last'.found /\ last'.value = heap[last.arg].value)
            /\ last'.op = "GetExpirationTime"
                  => last'.time = heap[last.arg].expiresAt]_vars

\* a Set has replaced an entry that had expired by another item
C7_Witness ==
    /\ last.op = "Set" /\ last.err = NoError
    /\ last.had # NilPtr /\ last.had # last.arg
    /\ now > heap[last.had].expiresAt
    /\ heap[last.had].value # heap[last.arg].value
    /\ items[last.key] = last.arg

\* C8: an operation that returns an error leaves the map and every item as
\* they were; UpdateValue and UpdateExpiresAt on a key that is not in the map
\* return ErrItemNotFound and do not insert it.
C8_FailureAtomicity ==
    [][/\ (OpStep /\ last'.err # NoError) => (items' = items /\ heap' = heap)
       /\ (OpStep /\ last'.op \in UpdateOps /\ last'.key \notin DOMAIN items)
            => (last'.err = ErrItemNotFound /\ last'.key \notin DOMAIN items')
       /\ (OpStep /\ last'.op = "Set" /\ last'.err # NoError)
            => last'.err \in {ErrItemHasExpired, ErrNilItem,
                              ErrValueMustBeATimedItem}]_vars

\* a Set was rejected as expired while the map held another item at the key
C8_Witness ==
    /\ last.op = "Set" /\ last.err = ErrItemHasExpired
    /\ last.had # NilPtr /\ last.had # last.arg
    /\ last.key \in DOMAIN items /\ items[last.key] = last.had

\* C9: Has(k) returns true exactly when k is in the map and its entry is not
\* expired, which is the found flag of Get(k) in the same state, and when the
\* entry is in the map but expired Has removes it.
C9_Has ==
    [][(OpStep /\ last'.op = "Has") =>
          /\ last'.found = Live(items, heap, now, last'.key)
          /\ last'.found = GetOutcome(items, heap, now, last'.key).found
          /\ Dead(items, heap, now, last'.key)
                => last'.key \notin DOMAIN items'
          /\ ~Dead(items, heap, now, last'.key) => items' = items]_vars

C9_Witness ==
    /\ last.op = "Has" /\ ~last.found /\ last.had # NilPtr
    /\ last.key \notin DOMAIN items

\* C10: Delete(k) leaves k out of the map, whether its entry was live or
\* expired; k then stays out of the map until a Set(k) succeeds, and for a key
\* that is not in the map Get returns (nil, false), Has returns false,
\* GetExpirationTime returns the zero time and UpdateValue, UpdateExpiresAt
\* return ErrItemNotFound.
C10_DeleteMakesAbsent ==
    [][/\ (OpStep /\ last'.op = "Delete") =>
            (last'.err = NoError /\ last'.key \notin DOMAIN items')
       /\ AbsentUntilSet
       /\ AbsentResults]_vars

\* a Delete has removed an entry that had expired
C10_Witness ==
    /\ last.op = "Delete" /\ last.had # NilPtr
    /\ now > heap[last.had].expiresAt
    /\ last.key \notin DOMAIN items

\* ----- claims C11.. ---------------------------------------------------------

\* C11: Delete(k) of a key that is not in the map returns without an error
\* and leaves the map and every item as they were, and a second Delete(k)
\* right after a Delete(k) changes nothing.
C11_DeleteIdempotent ==
    [][/\ (OpStep /\ last'.op = "Delete" /\ last'.key \notin DOMAIN items)
            => (last'.err = NoError /\ items' = items /\ heap' = heap)
       /\ (OpStep /\ last.op = "Delete" /\ last'.op = "Delete"
                  /\ last'.key = last.key)
            => (items' = items /\ heap' = heap)]_vars

\* a Delete of a key that was not in the map, the map holding another key
C11_Witness ==
    /\ last.op = "Delete" /\ last.had = NilPtr
    /\ last.key \notin DOMAIN items
    /\ DOMAIN items # {}

\* C12: the entries of the cache are owned by the cache alone: a step that
\* is not a cache operation (the clock, the construction of an item, a
\* write of the caller to an item it holds) leaves the value and the
\* expiration of every entry of the map as they were.
C12_EntriesOwnedByCache ==
    [][~OpStep => /\ items' = items
                  /\ \A k \in DOMAIN items :
                        heap'[items[k]] = heap[items[k]]]_vars

\* C13: Set with an absent item, a nil *TimedItem pointer or a nil interface
\* value, returns ErrNilItem and neither inserts nor changes the key.
C13_SetNilItem ==
    [][(/\ OpStep /\ last'.op = "Set"
        /\ \/ last'.kind = "nilinterface"
           \/ last'.kind = "ptr" /\ last'.arg = NilPtr)
          => (last'.err = ErrNilItem /\ items' = items /\ heap' = heap)]_vars

\* C14: a successful UpdateValue(k, v) changes only the value of the entry
\* at k, and a successful UpdateExpiresAt(k, t) only its expiration: the key
\* set, the other field of k and the entry of every other key stay as they
\* were, also when one item was stored under more than one key.
C14_UpdateFrame ==
    [][(OpStep /\ last'.err = NoError)
          => /\ last'.op = "UpdateValue"
                  => /\ items' = items
                     /\ \A k \in DOMAIN items :
                           /\ heap'[items[k]].expiresAt
                                 = heap[items[k]].expiresAt
                           /\ k # last'.key
                                 => heap'[items[k]] = heap[items[k]]
             /\ last'.op = "UpdateExpiresAt"
                  => /\ items' = items
                     /\ \A k \in DOMAIN items :
                           /\ heap'[items[k]].value = heap[items[k]].value
                           /\ k # last'.key
                                 => heap'[items[k]] = heap[items[k]]]_vars

\* C15: UpdateExpiresAt(k, t) of a key in the map succeeds when t is already
\* past and stores t, the key staying in the map; the Get(k) or Has(k) that
\* comes next reports the key missing and removes it from the map.
C15_SoftDelete ==
    [][OpStep
          => /\ (/\ last'.op \in ExpiryOps
                 /\ last'.key \in DOMAIN items
                 /\ now > last'.time)
                  => /\ last'.err = NoError
                     /\ items' = items
                     /\ heap'[items[last'.key]].expiresAt = last'.time
             /\ (/\ last.op \in ExpiryOps /\ last.err = NoError
                 /\ now > last.time
                 /\ last'.op \in {"Get", "Has"} /\ last'.key = last.key)
                  => /\ ~last'.found
                     /\ last'.value = NilValue
                     /\ last'.key \notin DOMAIN items']_vars

\* a live entry has just been given an expiration already past, and is
\* still in the map
C15_Witness ==
    /\ last.op \in ExpiryOps /\ last.err = NoError
    /\ last.had # NilPtr /\ ~last.dead
    /\ now > last.time
    /\ last.key \in DOMAIN items
    /\ heap[items[last.key]].expiresAt = last.time

C17_ZeroExactlyWhenAbsent ==
    [][(OpStep /\ last'.op = "GetExpirationTime")
          => /\ items' = items /\ heap' = heap
             /\ last'.key \in DOMAIN items
                  => last'.time = heap[items[last'.key]].expiresAt
             /\ last'.time = ZeroTime <=> last'.key \notin DOMAIN items]_vars

\* C17: GetExpirationTime(k) changes neither the map nor any item, returns
\* the stored expiration of k also when the entry is expired, and returns
\* the zero time when k is not in the map.
C17_PureRead ==
    [][(OpStep /\ last'.op = "GetExpirationTime")
          => /\ items' = items /\ heap' = heap
             /\ last'.time = IF last'.key \in DOMAIN items
                              THEN heap[items[last'.key]].expiresAt
                              ELSE ZeroTime]_vars

\* the expiration of an expired entry has been read, the entry still there
C17_Witness ==
    /\ last.op = "GetExpirationTime" /\ last.dead
    /\ Dead(items, heap, now, last.key)
    /\ last.time = heap[items[last.key]].expiresAt
    /\ last.time # ZeroTime

\* the lock is held by exactly the operations in progress
HoldsWrite(t) == th[t].pc \in {"w_locked", "w_done"}
HoldsRead(t) == th[t].pc \in {"r_locked", "r_evict", "r_done"}

LockMatchesOperations ==
    /\ mutex.w <=> \E t \in Threads : HoldsWrite(t)
    /\ Cardinality({t \in Threads : HoldsWrite(t)}) <= 1
    /\ mutex.r = Cardinality({t \in Threads : HoldsRead(t)})
    /\ mutex.w => mutex.r = 0

\* the next step of the operation goroutine t is running, lock held
Continue(t) ==
    \/ \E k \in Keys, a \in SetArgs : SetLocked(t, k, a)
    \/ \E k \in Keys, v \in AnyValue : UpdateValueLocked(t, k, v)
    \/ \E k \in Keys, e \in Times : UpdateExpiresAtLocked(t, k, e)
    \/ \E k \in Keys : DeleteLocked(t, k)
    \/ Unlock(t)
    \/ \E op \in ReadOps, k \in Keys : GetLookup(t, op, k)
    \/ GetEvict(t)
    \/ \E k \in Keys : GetExpirationTimeLocked(t, k)
    \/ RUnlock(t)

\* C18: the lock is held exactly by the operations in progress (each takes
\* it once and releases it on every return path), and an operation that
\* holds the lock can always take its next step, so that it completes (it
\* never waits for anything while it holds the lock).
C18_OperationsComplete ==
    /\ LockMatchesOperations
    /\ \A t \in Threads : th[t].pc # "idle" => ENABLED Continue(t)

\* C19: the delete of a Get(k) or Has(k) that found the entry expired
\* removes, if anything, an entry that is expired when it is removed, and
\* nothing else: no Set, UpdateExpiresAt or Delete comes between the check of
\* the expiration and the delete.
C19_EvictsOnlyExpired ==
    [][\A t \in Threads :
          (th[t].pc = "r_evict" /\ th'[t].pc = "r_done")
              => /\ items' = MapDelete(items, th[t].key)
                 /\ th[t].key \in DOMAIN items
                      => Dead(items, heap, now, th[t].key)]_vars

\* a reader has evicted the key while another reader, which also found the
\* entry expired, is about to delete it
C19_Witness ==
    \E t, u \in Threads :
        /\ t # u /\ ~crashed
        /\ th[t].pc = "r_done" /\ th[t].op \in {"Get", "Has"}
        /\ ~th[t].found
        /\ th[u].pc = "r_evict" /\ th[u].key = th[t].key
        /\ th[t].key \notin DOMAIN items

\* C20: UpdateExpiresAt(k, t) or UpdateExpirationTime(k, t) of an entry in
\* the map but expired, with t not yet passed, succeeds, stores t and leaves
\* the map and the value as they were; the Get(k) that comes next, t still
\* not passed, returns (v, true) with the value v the entry had.
C20_Revival ==
    [][OpStep
          => /\ (/\ last'.op \in ExpiryOps
                 /\ Dead(items, heap, now, last'.key)
                 /\ ~(now > last'.time))
                  => /\ last'.err = NoError
                     /\ items' = items
                     /\ heap'[items[last'.key]] =
                           [value |-> heap[items[last'.key]].value,
                            expiresAt |-> last'.time]
             /\ (/\ last.op \in ExpiryOps /\ last.err = NoError
                 /\ last.dead /\ ~(now > last.time)
                 /\ last'.op = "Get" /\ last'.key = last.key)
                  => /\ last'.found
                     /\ last'.value = heap[items[last.key]].value
                     /\ items' = items]_vars

\* an expired entry with a value has just been given an expiration not yet
\* passed, and is live again
C20_Witness ==
    /\ last.op \in ExpiryOps /\ last.err = NoError
    /\ last.dead /\ ~(now > last.time)
    /\ Live(items, heap, now, last.key)
    /\ heap[items[last.key]].value # NilValue

====
